---- MODULE Spec2Model ----
(***************************************************************************)
(* The liquidity provision ABCI application: the rounds of rounds.py, the  *)
(* period state they update and the transition function of                 *)
(* LiquidityRebalancingAbciApp, driven by a round-execution runtime.       *)
(***************************************************************************)
EXTENDS Integers, FiniteSets, Sequences, TLC

(* ------------------------------ bounds -------------------------------- *)

\* Largest number of participants a run is started with.
MaxParticipants == 4

\* How many decisions a driver that keeps the round may take from end_block of
\* one round instance.
MaxEndBlockCalls == 2

\* Largest number of participants of a run whose round heights are observed.
MaxLiveParticipants == 2

\* The round height is observed modulo this number.
HeightModulus == 2

(* ------------------------------ Event --------------------------------- *)

DONE == "done"
DONE_ENTER == "done_enter"
DONE_EXIT == "done_exit"
DONE_SWAP_BACK == "done_swap_back"
EXIT == "exit"
ROUND_TIMEOUT == "round_timeout"
NO_MAJORITY == "no_majority"
RESET_TIMEOUT == "reset_timeout"

Event ==
    {DONE, DONE_ENTER, DONE_EXIT, DONE_SWAP_BACK, EXIT, ROUND_TIMEOUT,
     NO_MAJORITY, RESET_TIMEOUT}

(* ------------------------------ rounds -------------------------------- *)

StrategyEvaluationRound == "StrategyEvaluationRound"
SleepRound == "SleepRound"
EnterPoolTransactionHashRound == "EnterPoolTransactionHashRound"
FinishedEnterPoolTransactionHashRound == "FinishedEnterPoolTransactionHashRound"
ExitPoolTransactionHashRound == "ExitPoolTransactionHashRound"
FinishedExitPoolTransactionHashRound == "FinishedExitPoolTransactionHashRound"
SwapBackTransactionHashRound == "SwapBackTransactionHashRound"
FinishedSwapBackTransactionHashRound == "FinishedSwapBackTransactionHashRound"

\* The subclasses of TransactionHashBaseRound.
TransactionHashRounds ==
    {EnterPoolTransactionHashRound, ExitPoolTransactionHashRound,
     SwapBackTransactionHashRound}

\* The subclasses of CollectSameUntilThresholdRound.
CollectRounds == {StrategyEvaluationRound} \cup TransactionHashRounds

initial_round_cls == StrategyEvaluationRound

\* transition_function with ExitPoolTransactionHashRound's DONE leading to the
\* enter pool branch's final round.
transition_function_exit_to_enter ==
    StrategyEvaluationRound :>
        (DONE :> SleepRound
         @@ DONE_ENTER :> EnterPoolTransactionHashRound
         @@ DONE_EXIT :> ExitPoolTransactionHashRound
         @@ DONE_SWAP_BACK :> SwapBackTransactionHashRound
         @@ ROUND_TIMEOUT :> StrategyEvaluationRound
         @@ NO_MAJORITY :> StrategyEvaluationRound)
    @@ SleepRound :>
        (DONE :> StrategyEvaluationRound
         @@ ROUND_TIMEOUT :> StrategyEvaluationRound
         @@ NO_MAJORITY :> StrategyEvaluationRound)
    @@ EnterPoolTransactionHashRound :>
        (DONE :> FinishedEnterPoolTransactionHashRound
         @@ ROUND_TIMEOUT :> StrategyEvaluationRound
         @@ NO_MAJORITY :> StrategyEvaluationRound)
    @@ FinishedEnterPoolTransactionHashRound :> <<>>
    @@ ExitPoolTransactionHashRound :>
        (DONE :> FinishedEnterPoolTransactionHashRound
         @@ ROUND_TIMEOUT :> StrategyEvaluationRound
         @@ NO_MAJORITY :> StrategyEvaluationRound)
    @@ FinishedExitPoolTransactionHashRound :> <<>>
    @@ SwapBackTransactionHashRound :>
        (DONE :> FinishedSwapBackTransactionHashRound
         @@ ROUND_TIMEOUT :> StrategyEvaluationRound
         @@ NO_MAJORITY :> StrategyEvaluationRound)
    @@ FinishedSwapBackTransactionHashRound :> <<>>

\* transition_function with a transaction hash round retrying itself, not the
\* strategy evaluation, when no majority is possible.
transition_function_retry_self ==
    StrategyEvaluationRound :>
        (DONE :> SleepRound
         @@ DONE_ENTER :> EnterPoolTransactionHashRound
         @@ DONE_EXIT :> ExitPoolTransactionHashRound
         @@ DONE_SWAP_BACK :> SwapBackTransactionHashRound
         @@ ROUND_TIMEOUT :> StrategyEvaluationRound
         @@ NO_MAJORITY :> StrategyEvaluationRound)
    @@ SleepRound :>
        (DONE :> StrategyEvaluationRound
         @@ ROUND_TIMEOUT :> StrategyEvaluationRound
         @@ NO_MAJORITY :> StrategyEvaluationRound)
    @@ EnterPoolTransactionHashRound :>
        (DONE :> FinishedEnterPoolTransactionHashRound
         @@ ROUND_TIMEOUT :> StrategyEvaluationRound
         @@ NO_MAJORITY :> EnterPoolTransactionHashRound)
    @@ FinishedEnterPoolTransactionHashRound :> <<>>
    @@ ExitPoolTransactionHashRound :>
        (DONE :> FinishedExitPoolTransactionHashRound
         @@ ROUND_TIMEOUT :> StrategyEvaluationRound
         @@ NO_MAJORITY :> ExitPoolTransactionHashRound)
    @@ FinishedExitPoolTransactionHashRound :> <<>>
    @@ SwapBackTransactionHashRound :>
        (DONE :> FinishedSwapBackTransactionHashRound
         @@ ROUND_TIMEOUT :> StrategyEvaluationRound
         @@ NO_MAJORITY :> SwapBackTransactionHashRound)
    @@ FinishedSwapBackTransactionHashRound :> <<>>

\* The table sending the swap back event to the exit pool round.
transition_function_swap_back_to_exit ==
    StrategyEvaluationRound :>
        (DONE :> SleepRound
         @@ DONE_ENTER :> EnterPoolTransactionHashRound
         @@ DONE_EXIT :> ExitPoolTransactionHashRound
         @@ DONE_SWAP_BACK :> ExitPoolTransactionHashRound
         @@ ROUND_TIMEOUT :> StrategyEvaluationRound
         @@ NO_MAJORITY :> StrategyEvaluationRound)
    @@ SleepRound :>
        (DONE :> StrategyEvaluationRound
         @@ ROUND_TIMEOUT :> StrategyEvaluationRound
         @@ NO_MAJORITY :> StrategyEvaluationRound)
    @@ EnterPoolTransactionHashRound :>
        (DONE :> FinishedEnterPoolTransactionHashRound
         @@ ROUND_TIMEOUT :> StrategyEvaluationRound
         @@ NO_MAJORITY :> StrategyEvaluationRound)
    @@ FinishedEnterPoolTransactionHashRound :> <<>>
    @@ ExitPoolTransactionHashRound :>
        (DONE :> FinishedExitPoolTransactionHashRound
         @@ ROUND_TIMEOUT :> StrategyEvaluationRound
         @@ NO_MAJORITY :> StrategyEvaluationRound)
    @@ FinishedExitPoolTransactionHashRound :> <<>>
    @@ SwapBackTransactionHashRound :>
        (DONE :> FinishedSwapBackTransactionHashRound
         @@ ROUND_TIMEOUT :> StrategyEvaluationRound
         @@ NO_MAJORITY :> StrategyEvaluationRound)
    @@ FinishedSwapBackTransactionHashRound :> <<>>

transition_function ==
    StrategyEvaluationRound :>
        (DONE :> SleepRound
         @@ DONE_ENTER :> EnterPoolTransactionHashRound
         @@ DONE_EXIT :> ExitPoolTransactionHashRound
         @@ DONE_SWAP_BACK :> SwapBackTransactionHashRound
         @@ ROUND_TIMEOUT :> StrategyEvaluationRound
         @@ NO_MAJORITY :> StrategyEvaluationRound)
    @@ SleepRound :>
        (DONE :> StrategyEvaluationRound
         @@ ROUND_TIMEOUT :> StrategyEvaluationRound
         @@ NO_MAJORITY :> StrategyEvaluationRound)
    @@ EnterPoolTransactionHashRound :>
        (DONE :> FinishedEnterPoolTransactionHashRound
         @@ ROUND_TIMEOUT :> StrategyEvaluationRound
         @@ NO_MAJORITY :> StrategyEvaluationRound)
    @@ FinishedEnterPoolTransactionHashRound :> <<>>
    @@ ExitPoolTransactionHashRound :>
        (DONE :> FinishedExitPoolTransactionHashRound
         @@ ROUND_TIMEOUT :> StrategyEvaluationRound
         @@ NO_MAJORITY :> StrategyEvaluationRound)
    @@ FinishedExitPoolTransactionHashRound :> <<>>
    @@ SwapBackTransactionHashRound :>
        (DONE :> FinishedSwapBackTransactionHashRound
         @@ ROUND_TIMEOUT :> StrategyEvaluationRound
         @@ NO_MAJORITY :> StrategyEvaluationRound)
    @@ FinishedSwapBackTransactionHashRound :> <<>>

\* final_states without the enter pool branch's final round.
final_states_without_enter ==
    {FinishedExitPoolTransactionHashRound,
     FinishedSwapBackTransactionHashRound}

final_states ==
    {FinishedEnterPoolTransactionHashRound,
     FinishedExitPoolTransactionHashRound,
     FinishedSwapBackTransactionHashRound}

\* event_to_timeout without the round timeout.
event_to_timeout_exit_only == EXIT :> 5

event_to_timeout == EXIT :> 5 @@ ROUND_TIMEOUT :> 30

\* The rounds of the application: the keys of the transition function.
Rounds == DOMAIN transition_function

\* The runtime's "no current round": an event without a successor was processed.
NoRound == "None"

(* ----------------------------- payloads ------------------------------- *)

\* StrategyType values, and one action outside the enumeration.
WAIT == "wait"
ENTER == "enter"
EXIT_ACTION == "exit"
SWAP_BACK == "swap_back"
OTHER_ACTION == "other"

StrategyType == {WAIT, ENTER, EXIT_ACTION, SWAP_BACK}

\* The strategy attribute of a StrategyEvaluationPayload: a dict with an action.
StrategyPayloads == [action : StrategyType \cup {OTHER_ACTION}]

\* The tx_hash attribute of a TransactionHashPayload: a JSON text, here the
\* sequence of its key/value members in the order they are written.
TxHashPayloads ==
    {<< <<"tx_hash", "0xabc">>, <<"tx_data", "0x01">> >>,
     << <<"tx_data", "0x01">>, <<"tx_hash", "0xabc">> >>,
     << <<"tx_hash", "0xdef">>, <<"tx_data", "0x02">> >>}

\* json.loads of an object: a dict of its members, a later member of the same
\* key replacing an earlier one.
json_loads(text) ==
    LET keys == {text[i][1] : i \in DOMAIN text}
        last(k) == CHOOSE i \in DOMAIN text :
                       /\ text[i][1] = k
                       /\ \A j \in DOMAIN text : text[j][1] = k => j <= i
    IN  [k \in keys |-> text[last(k)][2]]

\* The payloads a round's allowed_tx_type admits.
PayloadsOf(round) ==
    IF round = StrategyEvaluationRound THEN StrategyPayloads ELSE TxHashPayloads

(* ------------------ CollectSameUntilThresholdRound -------------------- *)

\* Python's None, the empty tuple; a decision is the pair <<state, event>>.
None == <<>>

\* The smallest count greater than two thirds of the participants.
consensus_threshold(nb) == (2 * nb) \div 3 + 1

\* payloads_count[value]: how many participants submitted value.
payloads_count(coll, value) == Cardinality({p \in DOMAIN coll : coll[p] = value})

\* The largest count of one value, 0 for an empty collection.
largest_nb_votes(coll) ==
    IF DOMAIN coll = {} THEN 0
    ELSE LET counts == {payloads_count(coll, coll[p]) : p \in DOMAIN coll}
         IN  CHOOSE c \in counts : \A d \in counts : d <= c

threshold_reached(coll, nb) ==
    \E p \in DOMAIN coll :
        payloads_count(coll, coll[p]) >= consensus_threshold(nb)

\* The most frequent value of the collection.
most_voted_payload(coll) ==
    LET max_votes == largest_nb_votes(coll)
        p == CHOOSE q \in DOMAIN coll : payloads_count(coll, coll[q]) = max_votes
    IN  coll[p]

is_majority_possible(coll, nb) ==
    largest_nb_votes(coll) + (nb - Cardinality(DOMAIN coll))
        >= consensus_threshold(nb)

\* BasePeriodState.update: a new state with the given keys set.
update(state, kwargs) == kwargs @@ state

(* --------------------------- end_block -------------------------------- *)

\* _return_no_majority_event returning a fresh period state.
return_no_majority_event_fresh(period_state) == <<<<>>, NO_MAJORITY>>

return_no_majority_event(period_state) == <<period_state, NO_MAJORITY>>

\* end_block storing the collection under the strategy round's key.
TransactionHashBaseRound_end_block_strategy_key(coll, period_state, nb) ==
    IF threshold_reached(coll, nb)
    THEN LET dict_ == json_loads(most_voted_payload(coll))
             state == update(period_state,
                             "participant_to_strategy" :> coll
                             @@ "most_voted_tx_hash" :> dict_["tx_hash"]
                             @@ "most_voted_tx_data" :> dict_["tx_data"])
         IN  <<state, DONE>>
    ELSE IF ~is_majority_possible(coll, nb)
         THEN return_no_majority_event(period_state)
         ELSE None

\* end_block giving up as soon as the threshold is not reached.
TransactionHashBaseRound_end_block_no_wait(coll, period_state, nb) ==
    IF threshold_reached(coll, nb)
    THEN LET dict_ == json_loads(most_voted_payload(coll))
             state == update(period_state,
                             "participant_to_tx_hash" :> coll
                             @@ "most_voted_tx_hash" :> dict_["tx_hash"]
                             @@ "most_voted_tx_data" :> dict_["tx_data"])
         IN  <<state, DONE>>
    ELSE return_no_majority_event(period_state)

\* end_block recording the payloads also when no majority is possible.
TransactionHashBaseRound_end_block_record_votes(coll, period_state, nb) ==
    IF threshold_reached(coll, nb)
    THEN LET dict_ == json_loads(most_voted_payload(coll))
             state == update(period_state,
                             "participant_to_tx_hash" :> coll
                             @@ "most_voted_tx_hash" :> dict_["tx_hash"]
                             @@ "most_voted_tx_data" :> dict_["tx_data"])
         IN  <<state, DONE>>
    ELSE IF ~is_majority_possible(coll, nb)
         THEN <<update(period_state, "participant_to_tx_hash" :> coll),
                NO_MAJORITY>>
         ELSE None

\* end_block committing one vote short of the threshold.
TransactionHashBaseRound_end_block_early(coll, period_state, nb) ==
    IF largest_nb_votes(coll) + 1 >= consensus_threshold(nb) /\ DOMAIN coll # {}
    THEN LET dict_ == json_loads(most_voted_payload(coll))
             state == update(period_state,
                             "participant_to_tx_hash" :> coll
                             @@ "most_voted_tx_hash" :> dict_["tx_hash"]
                             @@ "most_voted_tx_data" :> dict_["tx_data"])
         IN  <<state, DONE>>
    ELSE IF ~is_majority_possible(coll, nb)
         THEN return_no_majority_event(period_state)
         ELSE None

\* end_block storing the hash and the data under each other's key.
TransactionHashBaseRound_end_block_swapped(coll, period_state, nb) ==
    IF threshold_reached(coll, nb)
    THEN LET dict_ == json_loads(most_voted_payload(coll))
             state == update(period_state,
                             "participant_to_tx_hash" :> coll
                             @@ "most_voted_tx_hash" :> dict_["tx_data"]
                             @@ "most_voted_tx_data" :> dict_["tx_hash"])
         IN  <<state, DONE>>
    ELSE IF ~is_majority_possible(coll, nb)
         THEN return_no_majority_event(period_state)
         ELSE None

TransactionHashBaseRound_end_block(coll, period_state, nb) ==
    IF threshold_reached(coll, nb)
    THEN LET dict_ == json_loads(most_voted_payload(coll))
             state == update(period_state,
                             "participant_to_tx_hash" :> coll
                             @@ "most_voted_tx_hash" :> dict_["tx_hash"]
                             @@ "most_voted_tx_data" :> dict_["tx_data"])
         IN  <<state, DONE>>
    ELSE IF ~is_majority_possible(coll, nb)
         THEN return_no_majority_event(period_state)
         ELSE None

\* The event chain with the enter and exit events exchanged.
StrategyEvaluationRound_event_exchanged(action) ==
    IF action = WAIT THEN DONE
    ELSE IF action = ENTER THEN DONE_EXIT
    ELSE IF action = EXIT_ACTION THEN DONE_ENTER
    ELSE IF action = SWAP_BACK THEN DONE_SWAP_BACK
    ELSE RESET_TIMEOUT

\* The event chain with DONE as the default event.
StrategyEvaluationRound_event_default_done(action) ==
    IF action = WAIT THEN DONE
    ELSE IF action = ENTER THEN DONE_ENTER
    ELSE IF action = EXIT_ACTION THEN DONE_EXIT
    ELSE IF action = SWAP_BACK THEN DONE_SWAP_BACK
    ELSE DONE

StrategyEvaluationRound_event(action) ==
    IF action = WAIT THEN DONE
    ELSE IF action = ENTER THEN DONE_ENTER
    ELSE IF action = EXIT_ACTION THEN DONE_EXIT
    ELSE IF action = SWAP_BACK THEN DONE_SWAP_BACK
    ELSE RESET_TIMEOUT

\* end_block taking the strategy of the first participant of the collection.
StrategyEvaluationRound_end_block_first_payload(coll, period_state, nb) ==
    IF threshold_reached(coll, nb)
    THEN LET first == CHOOSE p \in DOMAIN coll : \A q \in DOMAIN coll : p <= q
             state == update(period_state,
                             "participant_to_strategy" :> coll
                             @@ "most_voted_strategy" :> coll[first])
             event == StrategyEvaluationRound_event(coll[first].action)
         IN  <<state, event>>
    ELSE IF ~is_majority_possible(coll, nb)
         THEN return_no_majority_event(period_state)
         ELSE None

\* end_block giving up as soon as the threshold is not reached.
StrategyEvaluationRound_end_block_no_wait(coll, period_state, nb) ==
    IF threshold_reached(coll, nb)
    THEN LET state == update(period_state,
                             "participant_to_strategy" :> coll
                             @@ "most_voted_strategy" :> most_voted_payload(coll))
             event == StrategyEvaluationRound_event(most_voted_payload(coll).action)
         IN  <<state, event>>
    ELSE return_no_majority_event(period_state)

\* end_block recording the payloads but not the agreed strategy.
StrategyEvaluationRound_end_block_votes_only(coll, period_state, nb) ==
    IF threshold_reached(coll, nb)
    THEN LET state == update(period_state, "participant_to_strategy" :> coll)
             event == StrategyEvaluationRound_event(most_voted_payload(coll).action)
         IN  <<state, event>>
    ELSE IF ~is_majority_possible(coll, nb)
         THEN return_no_majority_event(period_state)
         ELSE None

StrategyEvaluationRound_end_block(coll, period_state, nb) ==
    IF threshold_reached(coll, nb)
    THEN LET state == update(period_state,
                             "participant_to_strategy" :> coll
                             @@ "most_voted_strategy" :> most_voted_payload(coll))
             event == StrategyEvaluationRound_event(most_voted_payload(coll).action)
         IN  <<state, event>>
    ELSE IF ~is_majority_possible(coll, nb)
         THEN return_no_majority_event(period_state)
         ELSE None

\* SleepRound.end_block reporting that no majority is possible.
SleepRound_end_block_no_majority(period_state) ==
    return_no_majority_event(period_state)

SleepRound_end_block(period_state) == <<period_state, DONE>>

\* end_block of the current round's class.
end_block(round, coll, period_state, nb) ==
    IF round = StrategyEvaluationRound
    THEN StrategyEvaluationRound_end_block(coll, period_state, nb)
    ELSE IF round = SleepRound
    THEN SleepRound_end_block(period_state)
    ELSE TransactionHashBaseRound_end_block(coll, period_state, nb)

(* ------------------------------ state --------------------------------- *)

VARIABLES
    nb_participants,  \* period_state.nb_participants
    current_round,    \* the class of the runtime's current round
    collection,       \* the current round's collection: participant -> payload
    db,               \* the period state of the current round: key -> value
    round_height,     \* <<h>>: the runtime scheduled h rounds before the current
                      \* one, modulo HeightModulus; None where it is not observed
    returned          \* the decisions end_block returned to a driver that keeps
                      \* the round instance, call by call

vars == <<nb_participants, current_round, collection, db, round_height, returned>>

Init ==
    /\ nb_participants \in 1..MaxParticipants
    /\ current_round = initial_round_cls
    /\ collection = <<>>
    /\ db = <<>>
    /\ round_height = None
    /\ returned = <<>>

\* A collection that files a payload under its arrival position.
process_payload_by_arrival(coll, sender, payload) ==
    ((Cardinality(DOMAIN coll) + 1) :> payload) @@ coll

\* CollectionRound.process_payload: the collection files the payload under
\* its sender.
process_payload(coll, sender, payload) == (sender :> payload) @@ coll

\* CollectionRound.process_payload: a participant's first payload of the round.
ProcessPayload ==
    /\ current_round \in CollectRounds
    /\ returned = <<>>
    /\ \E sender \in 1..nb_participants, payload \in PayloadsOf(current_round) :
          /\ sender \notin DOMAIN collection
          /\ collection' = process_payload(collection, sender, payload)
    /\ UNCHANGED <<nb_participants, current_round, db, round_height, returned>>

\* SleepRound.check_payload and SleepRound.process_payload: empty bodies.
SleepPayload ==
    /\ current_round = SleepRound
    /\ \E payload \in StrategyPayloads \cup TxHashPayloads : TRUE
    /\ UNCHANGED vars

\* The height of the next scheduled round.
next_height(height) ==
    IF height = None THEN None ELSE <<(height[1] + 1) % HeightModulus>>

\* AbciApp.process_event: the next round of the transition function, with the
\* state the round returned; no next round for an event the round does not list.
process_event(event, state) ==
    /\ current_round' =
          IF event \in DOMAIN transition_function[current_round]
          THEN transition_function[current_round][event]
          ELSE NoRound
    /\ db' = state
    /\ collection' = <<>>
    /\ round_height' = next_height(round_height)
    /\ UNCHANGED <<nb_participants, returned>>

\* The runtime calls end_block of the current round at the end of a block:
\* None leaves everything as it is, a decision is processed at once.
EndBlock ==
    /\ current_round \in CollectRounds \cup {SleepRound}
    /\ returned = <<>>
    /\ LET result == end_block(current_round, collection, db, nb_participants)
       IN  IF result = None THEN UNCHANGED vars
           ELSE process_event(result[2], result[1])

\* The runtime's timeout of the round fires.
RoundTimeout ==
    /\ current_round \in Rounds \ final_states
    /\ returned = <<>>
    /\ ROUND_TIMEOUT \in DOMAIN event_to_timeout
    /\ process_event(ROUND_TIMEOUT, db)

Next ==
    \/ ProcessPayload
    \/ SleepPayload
    \/ EndBlock
    \/ RoundTimeout

Spec == Init /\ [][Next]_vars

\* A run whose round heights are observed.
InitLive ==
    /\ nb_participants \in 1..MaxLiveParticipants
    /\ current_round = initial_round_cls
    /\ collection = <<>>
    /\ db = <<>>
    /\ round_height = <<0>>
    /\ returned = <<>>

\* The runtime goes on calling end_block, and lets the round timeout of an
\* open round expire.
SpecLive ==
    InitLive /\ [][Next]_vars /\ WF_vars(EndBlock) /\ WF_vars(RoundTimeout)

\* A driver that calls end_block and keeps the round instance: it records the
\* decision and may call again.
CallEndBlock ==
    /\ current_round \in CollectRounds \cup {SleepRound}
    /\ Len(returned) < MaxEndBlockCalls
    /\ LET result == end_block(current_round, collection, db, nb_participants)
       IN  returned' = IF result = None THEN returned
                       ELSE Append(returned, result)
    /\ UNCHANGED <<nb_participants, current_round, collection, db, round_height>>

\* The period states a round of the given class can start with: none yet for
\* the first StrategyEvaluationRound, the state a unanimous commit of
\* StrategyEvaluationRound left for the others.
start_states(round, nb) ==
    LET committed(action) ==
            "participant_to_strategy" :> [p \in 1..nb |-> [action |-> action]]
            @@ "most_voted_strategy" :> [action |-> action]
    IN  IF round = StrategyEvaluationRound THEN {<<>>, committed(WAIT)}
        ELSE IF round = EnterPoolTransactionHashRound THEN {committed(ENTER)}
        ELSE IF round = ExitPoolTransactionHashRound THEN {committed(EXIT_ACTION)}
        ELSE {committed(SWAP_BACK)}

\* A replica at the start of a round of any collecting class.
InitReplica ==
    /\ nb_participants \in 1..MaxParticipants
    /\ current_round \in CollectRounds
    /\ collection = <<>>
    /\ db \in start_states(current_round, nb_participants)
    /\ round_height = None
    /\ returned = <<>>

NextRound ==
    \/ ProcessPayload
    \/ CallEndBlock

\* One round instance, the initial one, under a driver that keeps it.
SpecRound == Init /\ [][NextRound]_vars

\* One round instance of any collecting class, payloads arriving in any order.
SpecReplica == InitReplica /\ [][NextRound]_vars

(* ------------------------- claim vocabulary --------------------------- *)

\* Some value of the collection was submitted by more than two thirds of the
\* nb participants.
HasQuorum(coll, nb) ==
    \E p \in DOMAIN coll :
        3 * Cardinality({q \in DOMAIN coll : coll[q] = coll[p]}) > 2 * nb

\* A value of the collection submitted by more than two thirds of the participants.
AgreedValue(coll, nb) ==
    coll[CHOOSE p \in DOMAIN coll :
             3 * Cardinality({q \in DOMAIN coll : coll[q] = coll[p]}) > 2 * nb]

\* The value a JSON object text gives a key.
Member(text, key) == text[CHOOSE i \in DOMAIN text : text[i][1] = key][2]

\* What end_block of the current round returns in this state.
Returns == end_block(current_round, collection, db, nb_participants)

\* A return value of end_block that is a decision other than NO_MAJORITY.
IsCommit(r) == r # None /\ r[2] # NO_MAJORITY

\* The state holds the agreed value and the full collection.
HoldsAgreement(round, state, coll, nb) ==
    IF round = StrategyEvaluationRound
    THEN /\ {"participant_to_strategy", "most_voted_strategy"} \subseteq DOMAIN state
         /\ state["participant_to_strategy"] = coll
         /\ state["most_voted_strategy"] = AgreedValue(coll, nb)
    ELSE /\ {"participant_to_tx_hash", "most_voted_tx_hash", "most_voted_tx_data"}
                \subseteq DOMAIN state
         /\ state["participant_to_tx_hash"] = coll
         /\ state["most_voted_tx_hash"] = Member(AgreedValue(coll, nb), "tx_hash")
         /\ state["most_voted_tx_data"] = Member(AgreedValue(coll, nb), "tx_data")

\* The final round of a transaction hash round's branch.
FinishedOf(round) ==
    IF round = EnterPoolTransactionHashRound
    THEN FinishedEnterPoolTransactionHashRound
    ELSE IF round = ExitPoolTransactionHashRound
    THEN FinishedExitPoolTransactionHashRound
    ELSE FinishedSwapBackTransactionHashRound

(* ------------------------------ claims -------------------------------- *)

\* C1: in a collect-until-threshold round end_block returns an updated state
\* with a success event exactly when some payload value was submitted by more
\* than two thirds of the participants, and the returned state then holds the
\* agreed value and the full collection.
C1_CommitIffThreshold ==
    current_round \in CollectRounds =>
        LET r == Returns
        IN  /\ IsCommit(r) <=> HasQuorum(collection, nb_participants)
            /\ IsCommit(r) =>
                   HoldsAgreement(current_round, r[1], collection,
                                  nb_participants)

\* C1 witness: a transaction hash round of 4 participants has committed on the
\* value of 3 of them, the 4th having submitted another value, and the period
\* state holds the agreed value and the 4 payloads.
C1_Witness ==
    /\ current_round \in final_states
    /\ nb_participants = 4
    /\ Cardinality(DOMAIN db["participant_to_tx_hash"]) = 4
    /\ largest_nb_votes(db["participant_to_tx_hash"]) = 3
    /\ HoldsAgreement(EnterPoolTransactionHashRound, db,
                      db["participant_to_tx_hash"], nb_participants)

C3_EventByAction ==
    [][ ( /\ current_round = StrategyEvaluationRound
          /\ HasQuorum(collection, nb_participants)
          /\ EndBlock )
        => LET action == AgreedValue(collection, nb_participants).action
               event == Returns[2]
           IN  /\ action = WAIT => event = DONE
               /\ action = ENTER =>
                      /\ event = DONE_ENTER
                      /\ current_round' = EnterPoolTransactionHashRound
               /\ action = EXIT_ACTION => event = DONE_EXIT
               /\ action = SWAP_BACK => event = DONE_SWAP_BACK ]_vars

\* C3 witness: of 4 participants 3 submitted enter and 1 exit, and the round
\* after the commit is EnterPoolTransactionHashRound.
C3_Witness ==
    /\ current_round = EnterPoolTransactionHashRound
    /\ nb_participants = 4
    /\ "participant_to_strategy" \in DOMAIN db
    /\ Cardinality({p \in DOMAIN db["participant_to_strategy"] :
           db["participant_to_strategy"][p].action = ENTER}) = 3
    /\ Cardinality({p \in DOMAIN db["participant_to_strategy"] :
           db["participant_to_strategy"][p].action = EXIT_ACTION}) = 1
    /\ db["most_voted_strategy"].action = ENTER

\* C4: every event end_block returns is a key of the current round's entry in
\* the transition function, so the run never is without a round.
C4_EventsHaveSuccessor ==
    /\ current_round \in Rounds
    /\ (current_round \in CollectRounds \cup {SleepRound} /\ Returns # None)
           => Returns[2] \in DOMAIN transition_function[current_round]

\* C5: when StrategyEvaluationRound commits on a strategy whose action is
\* none of WAIT, ENTER, EXIT, SWAP_BACK, the event is RESET_TIMEOUT and the
\* returned state holds participant_to_strategy and most_voted_strategy.
C5_DefaultEvent ==
    ( /\ current_round = StrategyEvaluationRound
      /\ HasQuorum(collection, nb_participants)
      /\ AgreedValue(collection, nb_participants).action \notin StrategyType )
    => LET r == Returns
       IN  /\ r # None
           /\ r[2] = RESET_TIMEOUT
           /\ HoldsAgreement(current_round, r[1], collection, nb_participants)

\* C5 witness: the participants agree on an action outside StrategyType and
\* end_block returns RESET_TIMEOUT with a state holding that strategy.
C5_Witness ==
    /\ current_round = StrategyEvaluationRound
    /\ HasQuorum(collection, nb_participants)
    /\ AgreedValue(collection, nb_participants).action = OTHER_ACTION
    /\ Returns[2] = RESET_TIMEOUT
    /\ Returns[1]["most_voted_strategy"].action = OTHER_ACTION

\* C6: after a collect-until-threshold round committed, a second end_block
\* call on the same instance with the same collection returns no decision:
\* the round returns its decision only once.
C6_SecondCallSilent ==
    ( /\ current_round \in CollectRounds
      /\ returned # <<>>
      /\ IsCommit(returned[1]) )
    => Len(returned) = 1

\* The transition table of claim C7, as <<round, event, next round>>.
C7_Table ==
    {<<StrategyEvaluationRound, DONE, SleepRound>>,
     <<StrategyEvaluationRound, DONE_ENTER, EnterPoolTransactionHashRound>>,
     <<StrategyEvaluationRound, DONE_EXIT, ExitPoolTransactionHashRound>>,
     <<StrategyEvaluationRound, DONE_SWAP_BACK, SwapBackTransactionHashRound>>,
     <<StrategyEvaluationRound, ROUND_TIMEOUT, StrategyEvaluationRound>>,
     <<StrategyEvaluationRound, NO_MAJORITY, StrategyEvaluationRound>>,
     <<SleepRound, DONE, StrategyEvaluationRound>>,
     <<SleepRound, ROUND_TIMEOUT, StrategyEvaluationRound>>,
     <<SleepRound, NO_MAJORITY, StrategyEvaluationRound>>,
     <<EnterPoolTransactionHashRound, DONE, FinishedEnterPoolTransactionHashRound>>,
     <<EnterPoolTransactionHashRound, ROUND_TIMEOUT, StrategyEvaluationRound>>,
     <<EnterPoolTransactionHashRound, NO_MAJORITY, StrategyEvaluationRound>>,
     <<ExitPoolTransactionHashRound, DONE, FinishedExitPoolTransactionHashRound>>,
     <<ExitPoolTransactionHashRound, ROUND_TIMEOUT, StrategyEvaluationRound>>,
     <<ExitPoolTransactionHashRound, NO_MAJORITY, StrategyEvaluationRound>>,
     <<SwapBackTransactionHashRound, DONE, FinishedSwapBackTransactionHashRound>>,
     <<SwapBackTransactionHashRound, ROUND_TIMEOUT, StrategyEvaluationRound>>,
     <<SwapBackTransactionHashRound, NO_MAJORITY, StrategyEvaluationRound>>}

\* The transition function has exactly the edges of C7_Table, the claimed
\* initial round and the claimed final rounds.
C7_TableIsExact ==
    /\ \A r \in Rounds : \A e \in DOMAIN transition_function[r] :
           <<r, e, transition_function[r][e]>> \in C7_Table
    /\ \A t \in C7_Table :
           /\ t[1] \in Rounds
           /\ t[2] \in DOMAIN transition_function[t[1]]
           /\ transition_function[t[1]][t[2]] = t[3]
    /\ initial_round_cls = StrategyEvaluationRound
    /\ final_states = {FinishedEnterPoolTransactionHashRound,
                       FinishedExitPoolTransactionHashRound,
                       FinishedSwapBackTransactionHashRound}

\* The step goes from the current round along the table's edge for the event,
\* or to no round where the table has no such edge.
C7_Follows(event) ==
    LET edges == {t \in C7_Table : t[1] = current_round /\ t[2] = event}
    IN  IF edges = {} THEN current_round' = NoRound
        ELSE \A t \in edges : current_round' = t[3]

C9_SleepRound ==
    /\ [] ( current_round = SleepRound
            => (collection = <<>> /\ Returns = <<db, DONE>>) )
    /\ [][ (current_round = SleepRound /\ current_round' = SleepRound)
           => (db' = db /\ collection' = collection) ]_vars

\* C9 witness: SleepRound is the current round, no payload is stored, and
\* end_block returns DONE with the period state the strategy evaluation left.
C9_Witness ==
    /\ current_round = SleepRound
    /\ collection = <<>>
    /\ "most_voted_strategy" \in DOMAIN db
    /\ db["most_voted_strategy"].action = WAIT
    /\ Returns = <<db, DONE>>

\* Every round that is not final lists NO_MAJORITY and ROUND_TIMEOUT with
\* StrategyEvaluationRound as the next round.
C10_RetryEdges ==
    \A r \in Rounds \ final_states :
        \A e \in {NO_MAJORITY, ROUND_TIMEOUT} :
            /\ e \in DOMAIN transition_function[r]
            /\ transition_function[r][e] = StrategyEvaluationRound

\* C10: every round that is not final lists NO_MAJORITY and ROUND_TIMEOUT,
\* both with StrategyEvaluationRound as the next round, and processing either
\* event always makes StrategyEvaluationRound the current round.
C10_RetryRound ==
    /\ []C10_RetryEdges
    /\ [][ ( /\ collection' = <<>>
             /\ \/ RoundTimeout
                \/ (EndBlock /\ Returns # None /\ Returns[2] = NO_MAJORITY) )
           => current_round' = StrategyEvaluationRound ]_vars

\* C10 witness: the exit pool round, which only ROUND_TIMEOUT and NO_MAJORITY
\* lead out of, has been left for StrategyEvaluationRound.
C10_Witness ==
    /\ current_round = StrategyEvaluationRound
    /\ "most_voted_strategy" \in DOMAIN db
    /\ db["most_voted_strategy"].action = EXIT_ACTION
    /\ "most_voted_tx_hash" \notin DOMAIN db

\* The three Finished* rounds.
FinishedRounds ==
    {FinishedEnterPoolTransactionHashRound,
     FinishedExitPoolTransactionHashRound,
     FinishedSwapBackTransactionHashRound}

MostVotedKeys == {"most_voted_strategy", "most_voted_tx_hash", "most_voted_tx_data"}

\* The keys of the period state a round writes.
StrategyKeys == {"participant_to_strategy", "most_voted_strategy"}
TxKeys == {"participant_to_tx_hash", "most_voted_tx_hash", "most_voted_tx_data"}

\* C12 as stated: a key of the period state that holds a value keeps it for
\* the rest of the run, unless it is a most_voted_* key; every other key,
\* the participant_to_* keys included, is written at most once.
C12_OnlyMostVotedOverwritten ==
    [][ \A k \in DOMAIN db :
            k \notin MostVotedKeys => (k \in DOMAIN db' /\ db'[k] = db[k]) ]_vars

\* C12 amended: a key of the period state that holds a value is never removed,
\* and its value changes only in a commit of StrategyEvaluationRound, which
\* writes participant_to_strategy and most_voted_strategy in one update each
\* time the run comes back to it; the transaction hash keys never change
\* once written.
C12_OnlyStrategyKeysOverwritten ==
    [][ \A k \in DOMAIN db :
            /\ k \in DOMAIN db'
            /\ db'[k] # db[k] =>
                   /\ k \in StrategyKeys
                   /\ current_round = StrategyEvaluationRound
                   /\ EndBlock
                   /\ db' = update(db, "participant_to_strategy" :> collection
                                       @@ "most_voted_strategy" :> db'["most_voted_strategy"])
      ]_vars

\* C12 witness: StrategyEvaluationRound is current again, the period state holds
\* the payloads of an earlier commit, and end_block commits with other payloads.
C12_Witness ==
    /\ current_round = StrategyEvaluationRound
    /\ StrategyKeys \subseteq DOMAIN db
    /\ IsCommit(Returns)
    /\ Returns[1]["participant_to_strategy"] # db["participant_to_strategy"]
    /\ Returns[1]["most_voted_strategy"] = db["most_voted_strategy"]

\* The round the runtime schedules after a return value of end_block.
NextRoundOf(round, r) ==
    IF r = None THEN round
    ELSE IF r[2] \in DOMAIN transition_function[round]
    THEN transition_function[round][r[2]]
    ELSE NoRound

ValuesAtThreshold(coll, nb) ==
    {coll[p] : p \in {q \in DOMAIN coll :
                         payloads_count(coll, coll[q]) >= consensus_threshold(nb)}}

\* C14: in a collection with at most one payload per participant at most one
\* value has a count of at least the threshold, and the value a commit writes
\* to the period state is that value.
C14_UniqueAgreedValue ==
    current_round \in CollectRounds =>
        LET winners == ValuesAtThreshold(collection, nb_participants)
            r == Returns
        IN  /\ Cardinality(winners) <= 1
            /\ IsCommit(r) =>
                   IF current_round = StrategyEvaluationRound
                   THEN winners = {r[1]["most_voted_strategy"]}
                   ELSE \E v \in winners :
                           /\ winners = {v}
                           /\ r[1]["most_voted_tx_hash"] = Member(v, "tx_hash")
                           /\ r[1]["most_voted_tx_data"] = Member(v, "tx_data")

\* C14 witness: 3 of 4 participants submitted one strategy, the first
\* participant another, and end_block commits on the strategy of the 3.
C14_Witness ==
    /\ current_round = StrategyEvaluationRound
    /\ nb_participants = 4
    /\ DOMAIN collection = 1..4
    /\ collection[1] # collection[2]
    /\ ValuesAtThreshold(collection, nb_participants) = {collection[2]}
    /\ IsCommit(Returns)
    /\ Returns[1]["most_voted_strategy"] = collection[2]

\* The most frequent values of the collection are tied below the threshold.
TiedBelowThreshold(coll, nb) ==
    LET top == largest_nb_votes(coll)
    IN  /\ top < consensus_threshold(nb)
        /\ \E p \in DOMAIN coll, q \in DOMAIN coll :
              /\ coll[p] # coll[q]
              /\ payloads_count(coll, coll[p]) = top
              /\ payloads_count(coll, coll[q]) = top

\* C15 as stated: whenever the most frequent values of a collecting round are tied
\* below the threshold, end_block returns no decision and the round stays open.
C15_TieKeepsOpen ==
    ( /\ current_round \in CollectRounds
      /\ TiedBelowThreshold(collection, nb_participants) )
    => Returns = None

\* C15 amended: whenever the most frequent values are tied below the threshold,
\* end_block does not commit: it returns no decision while the payloads still
\* to come can lift a value over two thirds of the participants, and
\* NO_MAJORITY with the period state unchanged once they cannot.
C15_TieNeverCommits ==
    ( /\ current_round \in CollectRounds
      /\ TiedBelowThreshold(collection, nb_participants) )
    => LET r == Returns
           top == largest_nb_votes(collection)
           remaining == nb_participants - Cardinality(DOMAIN collection)
       IN  /\ ~IsCommit(r)
           /\ 3 * (top + remaining) > 2 * nb_participants => r = None
           /\ 3 * (top + remaining) <= 2 * nb_participants
                  => r = <<db, NO_MAJORITY>>

\* C15 witness: 2 of 4 participants submitted different strategies, and
\* end_block returns no decision.
C15_Witness ==
    /\ current_round = StrategyEvaluationRound
    /\ nb_participants = 4
    /\ Cardinality(DOMAIN collection) = 2
    /\ TiedBelowThreshold(collection, nb_participants)
    /\ Returns = None

\* The participants in S submitted one payload and each other participant a
\* payload nobody else submitted.
IdenticalAndDistinct(coll, S) ==
    /\ \A p \in S, q \in S : coll[p] = coll[q]
    /\ \A p \in DOMAIN coll \ S :
           \A q \in DOMAIN coll \ {p} : coll[p] # coll[q]

\* The groups of threshold-1 participants with an identical payload in a
\* complete collection whose other payloads are pairwise distinct.
NearQuorumGroups(coll, nb) ==
    IF DOMAIN coll # 1..nb THEN {}
    ELSE {S \in SUBSET (1..nb) :
              /\ Cardinality(S) = consensus_threshold(nb) - 1
              /\ IdenticalAndDistinct(coll, S)}

\* The collection before participant p submitted.
Without(coll, p) == [q \in DOMAIN coll \ {p} |-> coll[q]]

\* end_block of the current round had participant p not yet submitted.
ReturnsWithout(p) ==
    end_block(current_round, Without(collection, p), db, nb_participants)

\* C16 as stated: when threshold-1 participants submit an identical payload and
\* the others pairwise distinct payloads, there is a point with a participant
\* still to respond at which end_block yields NO_MAJORITY (stated for 2 or more
\* participants, where threshold-1 participants are at least one).
C16_NoMajorityBeforeComplete ==
    ( /\ current_round \in CollectRounds
      /\ nb_participants >= 2
      /\ NearQuorumGroups(collection, nb_participants) # {} )
    => \E p \in DOMAIN collection :
           LET r == ReturnsWithout(p) IN r # None /\ r[2] = NO_MAJORITY

\* C16 amended: for 2 or more participants, when threshold-1 of them submit
\* an identical payload and the others pairwise distinct payloads, end_block
\* yields NO_MAJORITY with the period state unchanged once all have responded;
\* with one of the distinct payloads still to come it returns no decision;
\* with one of the identical payloads still to come it yields NO_MAJORITY if
\* there are 3 or more participants and no decision if there are 2.
C16_NoMajorityWhenOutOfReach ==
    ( /\ current_round \in CollectRounds
      /\ nb_participants >= 2 )
    => \A S \in NearQuorumGroups(collection, nb_participants) :
           /\ Returns = <<db, NO_MAJORITY>>
           /\ \A p \in DOMAIN collection \ S : ReturnsWithout(p) = None
           /\ \A p \in S :
                  ReturnsWithout(p) = IF nb_participants >= 3
                                      THEN <<db, NO_MAJORITY>> ELSE None

\* C16 witness: in a transaction hash round of 4 participants 2 submitted one
\* value and the others two more values; end_block yields NO_MAJORITY, and
\* yielded it already before the second of the two identical payloads came.
C16_Witness ==
    /\ current_round = SwapBackTransactionHashRound
    /\ nb_participants = 4
    /\ {2, 3} \in NearQuorumGroups(collection, nb_participants)
    /\ Returns = <<db, NO_MAJORITY>>
    /\ ReturnsWithout(3) = <<db, NO_MAJORITY>>
    /\ ReturnsWithout(1) = None

\* The action of the branch a transaction hash round or its final round is on.
BranchAction(round) ==
    IF round \in {EnterPoolTransactionHashRound,
                  FinishedEnterPoolTransactionHashRound} THEN ENTER
    ELSE IF round \in {ExitPoolTransactionHashRound,
                       FinishedExitPoolTransactionHashRound} THEN EXIT_ACTION
    ELSE SWAP_BACK

\* C18: whenever the current round is a Finished* round the period state's
\* most_voted_strategy has the action of that branch and most_voted_tx_hash
\* and most_voted_tx_data are present; whenever a transaction hash round is
\* current most_voted_strategy is present with that branch's action.
C18_BranchPreserved ==
    /\ current_round \in FinishedRounds \cup TransactionHashRounds =>
           /\ "most_voted_strategy" \in DOMAIN db
           /\ db["most_voted_strategy"].action = BranchAction(current_round)
    /\ current_round \in FinishedRounds =>
           {"most_voted_tx_hash", "most_voted_tx_data"} \subseteq DOMAIN db

\* C18 witness: a run of 3 participants ended in
\* FinishedExitPoolTransactionHashRound; the period state holds the exit
\* strategy and the transaction hash and data.
C18_Witness ==
    /\ current_round = FinishedExitPoolTransactionHashRound
    /\ db["most_voted_strategy"].action = EXIT_ACTION
    /\ db["most_voted_tx_hash"] = "0xabc"
    /\ "most_voted_tx_data" \in DOMAIN db
    /\ nb_participants = 3

Successors(round) ==
    {transition_function[round][event] :
         event \in DOMAIN transition_function[round]}

\* The rounds a sequence of table transitions reaches from the rounds of S.
RECURSIVE Reachable(_)
Reachable(S) ==
    LET N == S \cup UNION {Successors(round) : round \in S \cap Rounds}
    IN  IF N = S THEN S ELSE Reachable(N)

ReachableFrom == [round \in Rounds |-> Reachable({round})]

\* Every round of the table is reachable from the initial round, every next
\* round of the table is a key of the table, and the rounds with no outgoing
\* transition are the three declared final rounds.
C20_TableIsClosed ==
    /\ ReachableFrom[initial_round_cls] = Rounds
    /\ \A round \in Rounds : Successors(round) \subseteq Rounds
    /\ {round \in Rounds : Successors(round) = {}} = final_states
    /\ final_states = FinishedRounds
    /\ \A round \in Rounds \ final_states :
           FinishedRounds \subseteq ReachableFrom[round]

C17_RoundEventuallyLeft ==
    \A height \in 0..(HeightModulus - 1) :
        (current_round \in Rounds \ final_states /\ round_height = <<height>>)
            ~> (round_height # <<height>>)

\* C17 witness: a StrategyEvaluationRound in which nobody submitted was left by
\* the round timeout, and its successor is current.
C17_Witness ==
    /\ current_round = StrategyEvaluationRound
    /\ round_height = <<1>>
    /\ collection = <<>>
    /\ db = <<>>

====
